---- MODULE Spec2Model ----
(***************************************************************************)
(* Hybrid retrieval of the RAG notebook (step_03_RAG/RAG.ipynb): the two   *)
(* retrievers, create_ensemble_retriever, the EnsembleRetriever it builds  *)
(* (weighted reciprocal rank fusion) and the chain of create_rag_chain.    *)
(*                                                                         *)
(* A Document is a store entry; the fusion identifies documents by their   *)
(* page_content, so two entries holding the same text are one document to  *)
(* it.  Scores are exact rationals <<numerator, denominator>>.             *)
(***************************************************************************)
EXTENDS Integers, Sequences, FiniteSets, TLC

\* ------------------------------------------------------------------ corpus

\* The entries vectordb.get() returns, in store order.
documents == <<"D1", "D2", "D3", "D4">>

Documents == {documents[i] : i \in 1..Len(documents)}

\* Document.page_content: D4 holds the same text as D1 (a chunk stored twice).
page_content(d) ==
    CASE d = "D1" -> "roo code is an agent"
      [] d = "D2" -> "installing roo code"
      [] d = "D3" -> "unrelated text about cooking"
      [] d = "D4" -> "roo code is an agent"

\* search_kwargs={"k": k} of the similarity retriever and k of the BM25 one.
k == 2

\* EnsembleRetriever.c, the constant added to every rank (left at its default).
c == 60

\* ------------------------------------------------------------- rationals

RECURSIVE GCD(_, _)
GCD(a, b) == IF b = 0 THEN a ELSE GCD(b, a % b)

LCM(a, b) == (a \div GCD(a, b)) * b

\* a + b for rationals with positive denominators
RatAdd(a, b) ==
    LET l == LCM(a[2], b[2])
    IN  <<a[1] * (l \div a[2]) + b[1] * (l \div b[2]), l>>

RatLess(a, b) ==
    LET l == LCM(a[2], b[2])
    IN  a[1] * (l \div a[2]) < b[1] * (l \div b[2])

RatEq(a, b) ==
    LET l == LCM(a[2], b[2])
    IN  a[1] * (l \div a[2]) = b[1] * (l \div b[2])

Zero == <<0, 1>>

\* ---------------------------------------------------------------- inputs

None == "None"

\* Weights a caller passes: 0, 0.3, 0.7 (the notebook's) and 1.
WeightValues == {<<0, 1>>, <<3, 10>>, <<7, 10>>, <<1, 1>>}

\* The retriever lists create_ensemble_retriever is called with.
RetrieverLists ==
    { <<>>,
      <<"similarity">>, <<"bm25">>,
      <<"similarity", "bm25">>, <<"bm25", "similarity">> }

\* A weights argument for n retrievers: None, or one weight per retriever.
WeightArgs(n) ==
    {[is_none |-> TRUE]} \cup
    (IF n = 0 THEN {} ELSE {[is_none |-> FALSE, value |-> w] : w \in [1..n -> WeightValues]})

Range(s) == {s[i] : i \in 1..Len(s)}

\* Ranked lists of at most n distinct store entries.
RECURSIVE RankedLists(_)
RankedLists(n) ==
    IF n = 0 THEN {<<>>}
    ELSE LET shorter == RankedLists(n - 1)
         IN  shorter \cup
             { Append(p[1], p[2]) :
                 p \in { q \in shorter \X Documents :
                           Len(q[1]) = n - 1 /\ q[2] \notin Range(q[1]) } }

\* What one retriever does with the query: it returns up to k documents or raises.
Returned(docs) == [ok |-> TRUE, docs |-> docs]
Raised(exc) == [ok |-> FALSE, exc |-> exc]

SimilarityOutcomes ==
    {Returned(l) : l \in RankedLists(k)} \cup {Raised("EmbeddingProviderError")}

BM25Outcomes ==
    {Returned(l) : l \in RankedLists(k)} \cup {Raised("LexicalIndexError")}

LLMOutcomes == {Returned("answer"), Raised("LanguageModelError")}

\* ------------------------------------------- EnsembleRetriever (fusion)

PageContents == {page_content(d) : d \in Documents}

\* Mutant of Contribution: the ranks counted from 0 (enumerate without start=1).
ContributionFromRankZero(weight, rank) == <<weight[1], weight[2] * (rank - 1 + c)>>

\* weight / (rank + c): what one list adds to the score of its document at `rank`.
Contribution(weight, rank) == <<weight[1], weight[2] * (rank + c)>>

\* Mutant of ScoreList: the score is overwritten ( = ), not added to ( += ).
RECURSIVE ScoreListOverwriting(_, _, _, _)
ScoreListOverwriting(score, doc_list, weight, rank) ==
    IF rank > Len(doc_list) THEN score
    ELSE LET key == page_content(doc_list[rank])
         IN  ScoreListOverwriting(
                 [score EXCEPT ![key] = Contribution(weight, rank)],
                 doc_list, weight, rank + 1)

\* for rank, doc in enumerate(doc_list, start=1): rrf_score[key(doc)] += weight / (rank + c)
RECURSIVE ScoreList(_, _, _, _)
ScoreList(score, doc_list, weight, rank) ==
    IF rank > Len(doc_list) THEN score
    ELSE LET key == page_content(doc_list[rank])
         IN  ScoreList(
                 [score EXCEPT ![key] = RatAdd(@, Contribution(weight, rank))],
                 doc_list, weight, rank + 1)

\* Mutant of ScoreLists: the weights are paired with the lists in reverse order.
RECURSIVE ScoreListsWeightsReversed(_, _, _, _)
ScoreListsWeightsReversed(score, doc_lists, ws, i) ==
    IF i > Len(doc_lists) \/ i > Len(ws) THEN score
    ELSE ScoreListsWeightsReversed(
             ScoreList(score, doc_lists[i], ws[Len(ws) + 1 - i], 1), doc_lists, ws, i + 1)

\* for doc_list, weight in zip(doc_lists, weights): ...
RECURSIVE ScoreLists(_, _, _, _)
ScoreLists(score, doc_lists, ws, i) ==
    IF i > Len(doc_lists) \/ i > Len(ws) THEN score
    ELSE ScoreLists(ScoreList(score, doc_lists[i], ws[i], 1), doc_lists, ws, i + 1)

\* rrf_score = defaultdict(float), then the two loops
RrfScore(doc_lists, ws) ==
    ScoreLists([key \in PageContents |-> Zero], doc_lists, ws, 1)

\* itertools.chain.from_iterable(doc_lists)
RECURSIVE Chain(_, _)
Chain(doc_lists, i) ==
    IF i > Len(doc_lists) THEN <<>>
    ELSE doc_lists[i] \o Chain(doc_lists, i + 1)

\* Mutant of UniqueByKey: nothing is dropped.
KeepAll(all_docs, i, seen) == all_docs

\* Mutant of UniqueByKey: documents are told apart by store entry, not by text.
RECURSIVE UniqueByEntry(_, _, _)
UniqueByEntry(all_docs, i, seen) ==
    IF i > Len(all_docs) THEN <<>>
    ELSE IF all_docs[i] \in seen
         THEN UniqueByEntry(all_docs, i + 1, seen)
         ELSE <<all_docs[i]>> \o UniqueByEntry(all_docs, i + 1, seen \cup {all_docs[i]})

\* unique_by_key(all_docs, page_content): the first document of every key, in order
RECURSIVE UniqueByKey(_, _, _)
UniqueByKey(all_docs, i, seen) ==
    IF i > Len(all_docs) THEN <<>>
    ELSE LET key == page_content(all_docs[i])
         IN  IF key \in seen
             THEN UniqueByKey(all_docs, i + 1, seen)
             ELSE <<all_docs[i]>> \o UniqueByKey(all_docs, i + 1, seen \cup {key})

\* Mutant of SortedReverse: sorted ascending, then reversed (equal scores swap).
RECURSIVE InsertBeforeEqual(_, _, _)
InsertBeforeEqual(sorted_docs, doc, score) ==
    IF sorted_docs = <<>> THEN <<doc>>
    ELSE IF RatLess(score[page_content(doc)], score[page_content(Head(sorted_docs))])
         THEN <<Head(sorted_docs)>> \o InsertBeforeEqual(Tail(sorted_docs), doc, score)
         ELSE <<doc>> \o sorted_docs

RECURSIVE SortedAscendingReversed(_, _, _)
SortedAscendingReversed(docs, score, n) ==
    IF n = 0 THEN <<>>
    ELSE InsertBeforeEqual(SortedAscendingReversed(docs, score, n - 1), docs[n], score)

\* Where a stable descending sort puts doc into the already sorted `sorted_docs`:
\* behind every document whose score is not smaller.
RECURSIVE InsertDescending(_, _, _)
InsertDescending(sorted_docs, doc, score) ==
    IF sorted_docs = <<>> THEN <<doc>>
    ELSE IF RatLess(score[page_content(Head(sorted_docs))], score[page_content(doc)])
         THEN <<doc>> \o sorted_docs
         ELSE <<Head(sorted_docs)>> \o InsertDescending(Tail(sorted_docs), doc, score)

\* Mutant of SortedReverse: reverse=True left out, the smallest score first.
RECURSIVE InsertAscending(_, _, _)
InsertAscending(sorted_docs, doc, score) ==
    IF sorted_docs = <<>> THEN <<doc>>
    ELSE IF RatLess(score[page_content(doc)], score[page_content(Head(sorted_docs))])
         THEN <<doc>> \o sorted_docs
         ELSE <<Head(sorted_docs)>> \o InsertAscending(Tail(sorted_docs), doc, score)

RECURSIVE SortedAscending(_, _, _)
SortedAscending(docs, score, n) ==
    IF n = 0 THEN <<>>
    ELSE InsertAscending(SortedAscending(docs, score, n - 1), docs[n], score)

\* sorted(docs, reverse=True, key=lambda doc: rrf_score[key(doc)]): stable
RECURSIVE SortedReverse(_, _, _)
SortedReverse(docs, score, n) ==
    IF n = 0 THEN <<>>
    ELSE InsertDescending(SortedReverse(docs, score, n - 1), docs[n], score)

\* Mutant of WeightedReciprocalRank: the fused list is cut to its k best.
WeightedReciprocalRankTopK(doc_lists, ws) ==
    LET unique == UniqueByKey(Chain(doc_lists, 1), 1, {})
        sorted == SortedReverse(unique, RrfScore(doc_lists, ws), Len(unique))
    IN  SubSeq(sorted, 1, IF Len(sorted) <= k THEN Len(sorted) ELSE k)

\* EnsembleRetriever.weighted_reciprocal_rank(doc_lists)
WeightedReciprocalRank(doc_lists, ws) ==
    LET unique == UniqueByKey(Chain(doc_lists, 1), 1, {})
    IN  SortedReverse(unique, RrfScore(doc_lists, ws), Len(unique))

\* ----------------------------------------------------------------- state

VARIABLES
    similarity_retriever,  \* what the similarity retriever does with `query`
    bm25_retriever,        \* what the BM25 retriever does with `query`
    llm,                   \* what the language model does with the prompt
    retrievers,            \* EnsembleRetriever.retrievers
    weights,               \* EnsembleRetriever.weights
    rrf_score,             \* the scores of the last fusion
    ensemble_results,      \* the test cell's ensemble_results
    response,              \* what rag_chain.invoke returned or raised
    llm_called,            \* whether that invoke reached the language model
    error,                 \* the exception that ended the last cell, or None
    pc,                    \* the notebook cell reached
    query_state,           \* rank_fusion's progress through its retrievers
    input_file,            \* the lines of split_docs.jsonl
    jsonl_documents,       \* the embedding notebook's documents (load_jsonl)
    langchain_docs,        \* the embedding notebook's langchain_docs
    vectordb,              \* the entries of the collection under ../chroma_db
    entries_before_build,  \* how many entries it held when the last build began
    builds,                \* how often the build cell has been run
    persisted,             \* how often it reached vectordb.persist()
    rag_documents,         \* the retrieval notebook's documents (vectordb.get)
    bm25_docs,             \* BM25Retriever.docs
    scores,                \* the BM25 score of each text for the last query
    bm25_results           \* what the BM25 retriever returned for it

vars ==
    <<similarity_retriever, bm25_retriever, llm, retrievers, weights, rrf_score,
      ensemble_results, response, llm_called, error, pc, query_state,
      input_file, jsonl_documents, langchain_docs, vectordb, entries_before_build,
      builds, persisted, rag_documents, bm25_docs, scores, bm25_results>>

\* The state of the embedding notebook and of the store it fills.
build_vars ==
    <<input_file, jsonl_documents, langchain_docs, vectordb, entries_before_build,
      builds, persisted, rag_documents>>

\* The retrievers, the ensemble and the chain of the retrieval notebook.
retrieval_vars ==
    <<similarity_retriever, bm25_retriever, llm, retrievers, weights, rrf_score,
      ensemble_results, response, llm_called>>

\* What the cells of the retrieval notebook leave alone.
other_vars == <<query_state, build_vars, bm25_docs, scores, bm25_results>>

\* The state of the BM25 retriever taken by itself.
bm25_vars == <<bm25_docs, scores, bm25_results>>

\* Nothing of the embedding notebook has run.
BuildIdle ==
    /\ input_file = <<>>
    /\ jsonl_documents = <<>>
    /\ langchain_docs = <<>>
    /\ vectordb = <<>>
    /\ entries_before_build = 0
    /\ builds = 0
    /\ persisted = 0
    /\ rag_documents = <<>>

\* No BM25 retriever is looked at by itself.
BM25Idle ==
    /\ bm25_docs = <<>>
    /\ scores = <<>>
    /\ bm25_results = <<>>

\* The retrievers exist (cells 5 and 6 up to line 237); no ensemble yet.
Init ==
    /\ similarity_retriever \in SimilarityOutcomes
    /\ bm25_retriever \in BM25Outcomes
    /\ llm \in LLMOutcomes
    /\ retrievers = <<>>
    /\ weights = <<>>
    /\ rrf_score = [key \in PageContents |-> Zero]
    /\ ensemble_results = <<>>
    /\ response = Raised(None)
    /\ llm_called = FALSE
    /\ error = None
    /\ pc = "retrievers"
    /\ query_state = <<>>
    /\ BuildIdle
    /\ BM25Idle

\* Mutant of DefaultWeights: every weight 1, not 1/n.
UnitWeights(n) == [i \in 1..n |-> <<1, 1>>]

\* weights = [1/len(retrievers)] * len(retrievers)
DefaultWeights(n) == [i \in 1..n |-> <<1, n>>]

\* create_ensemble_retriever(retrievers, weights=None)
CreateEnsembleRetriever(rs, ws) ==
    /\ pc = "retrievers"
    /\ IF ws.is_none /\ Len(rs) = 0
       THEN /\ error' = "ZeroDivisionError"
            /\ pc' = "failed"
            /\ UNCHANGED <<retrievers, weights>>
       ELSE /\ retrievers' = rs
            /\ weights' = IF ws.is_none THEN DefaultWeights(Len(rs)) ELSE ws.value
            /\ pc' = "ensemble"
            /\ UNCHANGED error
    /\ UNCHANGED <<similarity_retriever, bm25_retriever, llm, rrf_score,
                   ensemble_results, response, llm_called>>
    /\ UNCHANGED other_vars

\* retriever.invoke(query) of one member of the ensemble
Invoke(r) == IF r = "similarity" THEN similarity_retriever ELSE bm25_retriever

\* The members of the ensemble that raise on the query, by position.
Failing(rs) == {i \in 1..Len(rs) : ~Invoke(rs[i]).ok}

Min(S) == CHOOSE x \in S : \A y \in S : x <= y

\* Mutant of RankFusion: a retriever that raises is left out and the lists of
\* the others are fused; only when all raise does the call raise.
RankFusionOfSurvivors(rs, ws) ==
    LET alive == {i \in 1..Len(rs) : Invoke(rs[i]).ok}
    IN  IF alive = {} /\ Len(rs) > 0
        THEN Raised(Invoke(rs[1]).exc)
        ELSE Returned(WeightedReciprocalRank(
                 [i \in 1..Len(rs) |-> IF i \in alive THEN Invoke(rs[i]).docs ELSE <<>>], ws))

\* the lists rank_fusion hands to weighted_reciprocal_rank
DocLists(rs) == [i \in 1..Len(rs) |-> Invoke(rs[i]).docs]

\* EnsembleRetriever.rank_fusion: every retriever is invoked in turn, the first
\* exception ends the call, otherwise the lists are fused.
RankFusion(rs, ws) ==
    IF Failing(rs) # {}
    THEN Raised(Invoke(rs[Min(Failing(rs))]).exc)
    ELSE Returned(WeightedReciprocalRank(DocLists(rs), ws))

\* The test cell: the three get_relevant_documents calls, in order.
TestQuery ==
    /\ pc = "ensemble"
    /\ pc' = "tested"
    /\ IF ~similarity_retriever.ok
       THEN /\ error' = similarity_retriever.exc
            /\ UNCHANGED <<ensemble_results, rrf_score>>
       ELSE IF ~bm25_retriever.ok
       THEN /\ error' = bm25_retriever.exc
            /\ UNCHANGED <<ensemble_results, rrf_score>>
       ELSE LET fused == RankFusion(retrievers, weights)
            IN  /\ ensemble_results' = fused.docs
                /\ rrf_score' = RrfScore(DocLists(retrievers), weights)
                /\ UNCHANGED error
    /\ UNCHANGED <<similarity_retriever, bm25_retriever, llm, retrievers, weights,
                   response, llm_called>>
    /\ UNCHANGED other_vars

\* Mutant of RetrievalChain: a failure of the retrieval or of the language
\* model is swallowed and an empty answer returned.
RetrievalChainWithFallback(rs, ws) ==
    LET context == RankFusion(rs, ws)
    IN  IF ~context.ok
        THEN [result |-> [ok |-> TRUE, context |-> <<>>, answer |-> ""], llm_called |-> FALSE]
        ELSE IF ~llm.ok
        THEN [result |-> [ok |-> TRUE, context |-> context.docs, answer |-> ""],
              llm_called |-> TRUE]
        ELSE [result |-> [ok |-> TRUE, context |-> context.docs, answer |-> llm.docs],
              llm_called |-> TRUE]

\* create_retrieval_chain(retriever, document_chain).invoke: retrieve, then
\* hand the documents and the question to the language model.
RetrievalChain(rs, ws) ==
    LET context == RankFusion(rs, ws)
    IN  IF ~context.ok THEN [result |-> context, llm_called |-> FALSE]
        ELSE IF ~llm.ok THEN [result |-> llm, llm_called |-> TRUE]
        ELSE [result |-> [ok |-> TRUE, context |-> context.docs, answer |-> llm.docs],
              llm_called |-> TRUE]

\* rag_chain.invoke({"input": ...}) and what the cell keeps of it
ChainInvoked ==
    LET run == RetrievalChain(retrievers, weights)
    IN  /\ response' = run.result
        /\ llm_called' = run.llm_called
        /\ error' = IF run.result.ok THEN None ELSE run.result.exc

\* response = rag_chain.invoke({"input": query})
RagChainInvoke ==
    /\ pc = "tested"
    /\ pc' = "answered"
    /\ ChainInvoked
    /\ UNCHANGED <<similarity_retriever, bm25_retriever, llm, retrievers, weights,
                   rrf_score, ensemble_results>>
    /\ UNCHANGED other_vars

\* What the user types into the interactive cell.
UserQueries == {"q", "Q", "Roo Code?"}

\* str.lower()
Lower(text) == IF text = "Q" THEN "q" ELSE text

\* The interactive cell: any input but q is put to the chain.
InteractiveCell(user_query) ==
    /\ pc = "answered"
    /\ IF Lower(user_query) # "q"
       THEN ChainInvoked
       ELSE UNCHANGED <<response, llm_called, error>>
    /\ UNCHANGED <<similarity_retriever, bm25_retriever, llm, retrievers, weights,
                   rrf_score, ensemble_results, pc>>
    /\ UNCHANGED other_vars

Next ==
    \/ \E rs \in RetrieverLists : \E ws \in WeightArgs(Len(rs)) :
           CreateEnsembleRetriever(rs, ws)
    \/ TestQuery
    \/ RagChainInvoke
    \/ \E user_query \in UserQueries : InteractiveCell(user_query)

Spec == Init /\ [][Next]_vars

\* ------------------------------------------- one request, retriever by retriever

\* The ensemble of the notebook: [similarity_retriever, bm25_retriever] with
\* weights [0.7, 0.3], about to serve one query.
InitRequest ==
    /\ similarity_retriever \in SimilarityOutcomes
    /\ bm25_retriever \in BM25Outcomes
    /\ llm = Returned("answer")
    /\ retrievers = <<"similarity", "bm25">>
    /\ weights = <<(<<7, 10>>), (<<3, 10>>)>>
    /\ rrf_score = [key \in PageContents |-> Zero]
    /\ ensemble_results = <<>>
    /\ response = Raised(None)
    /\ llm_called = FALSE
    /\ error = None
    /\ pc = "request"
    /\ query_state = [i \in 1..Len(retrievers) |-> "idle"]
    /\ BuildIdle
    /\ BM25Idle

\* Mutant of InvokeRetriever: every retriever is invoked up front, whether or
\* not the ones before it have returned.
InvokeRetrieverConcurrently(i) ==
    /\ pc = "request"
    /\ query_state[i] = "idle"
    /\ query_state' = [query_state EXCEPT ![i] = "outstanding"]
    /\ UNCHANGED <<similarity_retriever, bm25_retriever, llm, retrievers, weights,
                   rrf_score, ensemble_results, response, llm_called, error, pc>>
    /\ UNCHANGED <<build_vars, bm25_vars>>

\* rank_fusion's list comprehension reaches retriever i: retriever.invoke(query)
\* is called once every retriever before it has returned.
InvokeRetriever(i) ==
    /\ pc = "request"
    /\ query_state[i] = "idle"
    /\ \A j \in 1..(i - 1) : query_state[j] = "returned"
    /\ query_state' = [query_state EXCEPT ![i] = "outstanding"]
    /\ UNCHANGED <<similarity_retriever, bm25_retriever, llm, retrievers, weights,
                   rrf_score, ensemble_results, response, llm_called, error, pc>>
    /\ UNCHANGED <<build_vars, bm25_vars>>

\* retriever.invoke(query) returns its ranked list.
RetrieverReturns(i) ==
    /\ pc = "request"
    /\ query_state[i] = "outstanding"
    /\ Invoke(retrievers[i]).ok
    /\ query_state' = [query_state EXCEPT ![i] = "returned"]
    /\ UNCHANGED <<similarity_retriever, bm25_retriever, llm, retrievers, weights,
                   rrf_score, ensemble_results, response, llm_called, error, pc>>
    /\ UNCHANGED <<build_vars, bm25_vars>>

\* retriever.invoke(query) raises: the exception leaves rank_fusion.
RetrieverRaises(i) ==
    /\ pc = "request"
    /\ query_state[i] = "outstanding"
    /\ ~Invoke(retrievers[i]).ok
    /\ query_state' = [query_state EXCEPT ![i] = "raised"]
    /\ error' = Invoke(retrievers[i]).exc
    /\ pc' = "failed"
    /\ UNCHANGED <<similarity_retriever, bm25_retriever, llm, retrievers, weights,
                   rrf_score, ensemble_results, response, llm_called>>
    /\ UNCHANGED <<build_vars, bm25_vars>>

\* fused_documents = self.weighted_reciprocal_rank(retriever_docs)
Fuse ==
    /\ pc = "request"
    /\ \A i \in 1..Len(retrievers) : query_state[i] = "returned"
    /\ ensemble_results' = WeightedReciprocalRank(DocLists(retrievers), weights)
    /\ rrf_score' = RrfScore(DocLists(retrievers), weights)
    /\ pc' = "fused"
    /\ UNCHANGED <<similarity_retriever, bm25_retriever, llm, retrievers, weights,
                   response, llm_called, error, query_state>>
    /\ UNCHANGED <<build_vars, bm25_vars>>

NextRequest ==
    \/ \E i \in 1..Len(retrievers) : InvokeRetriever(i)
    \/ \E i \in 1..Len(retrievers) : RetrieverReturns(i)
    \/ \E i \in 1..Len(retrievers) : RetrieverRaises(i)
    \/ Fuse

SpecRequest == InitRequest /\ [][NextRequest]_vars

\* ------------------------------------- the embedding notebook and the read-back

\* How many lines split_docs.jsonl has at most.
MaxLines == 3

\* How often the build cell is run at most.
MaxBuilds == 2

\* How many documents Chroma takes in one add_texts call (its client's
\* max_batch_size).
max_batch_size == 2

\* The lines a JSONL file is made of: an empty line, a line of blanks, and two
\* JSON objects with "content" and "metadata".
Lines == {"", " ", "json:index", "json:installing"}

\* str.strip()
Strip(line) == IF line = " " THEN "" ELSE line

\* json.loads(line)
JsonLoads(line) ==
    IF line = "json:index"
    THEN [content |-> "roo code is an agent", metadata |-> "index.md"]
    ELSE [content |-> "installing roo code", metadata |-> "installing.md"]

\* Every file of at most n lines.
Files(n) == UNION {[1..m -> Lines] : m \in 0..n}

\* load_jsonl: for line in f: if line.strip(): documents.append(json.loads(line))
RECURSIVE LoadJsonl(_, _)
LoadJsonl(lines, i) ==
    IF i > Len(lines) THEN <<>>
    ELSE IF Strip(lines[i]) # ""
    THEN <<JsonLoads(lines[i])>> \o LoadJsonl(lines, i + 1)
    ELSE LoadJsonl(lines, i + 1)

\* Document(page_content=..., metadata=...)
Document(text, metadata) == [page_content |-> text, metadata |-> metadata]

\* convert_to_langchain_documents
ConvertToLangchainDocuments(docs) ==
    [i \in 1..Len(docs) |-> Document(docs[i].content, docs[i].metadata)]

\* The batches Chroma.from_texts cuts n texts into.
NumBatches(n) == (n + max_batch_size - 1) \div max_batch_size

\* One entry of the collection; ids are fresh (uuid4), here the entry's position.
Entry(doc, id) == [id |-> id, document |-> doc.page_content, metadata |-> doc.metadata]

\* Mutant of FromDocuments: every document is embedded and written on its own,
\* so a failure leaves all documents before the failing one.
FromDocumentsOneByOne(store, docs, fail_at) ==
    LET written == IF fail_at = 0 THEN Len(docs) ELSE fail_at - 1
    IN  [ok |-> fail_at = 0,
         store |-> store \o [i \in 1..written |-> Entry(docs[i], Len(store) + i)]]

\* Mutant of FromDocuments: the collection is emptied before it is filled.
FromDocumentsReplacing(store, docs, fail_at) ==
    LET written == IF fail_at = 0 THEN Len(docs) ELSE (fail_at - 1) * max_batch_size
    IN  [ok |-> fail_at = 0,
         store |-> [i \in 1..written |-> Entry(docs[i], i)]]

\* Chroma.from_documents(documents, embedding, persist_directory): the texts are
\* added to the collection of the directory batch by batch, each batch embedded
\* in full before it is written; the embedding call of batch fail_at raises
\* (fail_at = 0: none does).
FromDocuments(store, docs, fail_at) ==
    LET written == IF fail_at = 0 THEN Len(docs) ELSE (fail_at - 1) * max_batch_size
    IN  [ok |-> fail_at = 0,
         store |-> store \o [i \in 1..written |-> Entry(docs[i], Len(store) + i)]]

\* vectordb.get(): the stored texts and metadatas, in the order of the entries.
Get(store) ==
    [documents |-> [i \in 1..Len(store) |-> store[i].document],
     metadatas |-> [i \in 1..Len(store) |-> store[i].metadata]]

\* zip(a, b)
Zip(a, b) ==
    [i \in 1..(IF Len(a) <= Len(b) THEN Len(a) ELSE Len(b)) |-> <<a[i], b[i]>>]

\* Mutant of ReadBack: the texts are paired with the metadatas in reverse order.
ReadBackCrossed(store) ==
    LET all_documents == Get(store)
        n == Len(store)
    IN  [i \in 1..n |->
            Document(all_documents.documents[i], all_documents.metadatas[n + 1 - i])]

\* documents = [Document(page_content=text, metadata=metadata)
\*              for text, metadata in zip(all_documents['documents'], all_documents['metadatas'])]
ReadBack(store) ==
    LET all_documents == Get(store)
        pairs == Zip(all_documents.documents, all_documents.metadatas)
    IN  [i \in 1..Len(pairs) |-> Document(pairs[i][1], pairs[i][2])]

\* A JSONL file and an empty persist directory; no cell has run.
InitBuild ==
    /\ input_file \in Files(MaxLines)
    /\ jsonl_documents = <<>>
    /\ langchain_docs = <<>>
    /\ vectordb = <<>>
    /\ entries_before_build = 0
    /\ builds = 0
    /\ persisted = 0
    /\ rag_documents = <<>>
    /\ similarity_retriever = Returned(<<>>)
    /\ bm25_retriever = Returned(<<>>)
    /\ llm = Returned("answer")
    /\ retrievers = <<>>
    /\ weights = <<>>
    /\ rrf_score = [key \in PageContents |-> Zero]
    /\ ensemble_results = <<>>
    /\ response = Raised(None)
    /\ llm_called = FALSE
    /\ error = None
    /\ pc = "load"
    /\ query_state = <<>>
    /\ BM25Idle

\* documents = load_jsonl(input_file); the notebook is run from here, the first
\* time or again after a build.
LoadJsonlCell ==
    /\ pc \in {"load", "built", "build_failed"}
    /\ builds < MaxBuilds
    /\ jsonl_documents' = LoadJsonl(input_file, 1)
    /\ error' = None
    /\ pc' = "convert"
    /\ UNCHANGED <<input_file, langchain_docs, vectordb, entries_before_build, builds,
                   persisted, rag_documents, query_state>>
    /\ UNCHANGED <<retrieval_vars, bm25_vars>>

\* langchain_docs = convert_to_langchain_documents(documents)
ConvertCell ==
    /\ pc = "convert"
    /\ langchain_docs' = ConvertToLangchainDocuments(jsonl_documents)
    /\ pc' = "build"
    /\ UNCHANGED <<input_file, jsonl_documents, vectordb, entries_before_build, builds,
                   persisted, rag_documents, query_state, error>>
    /\ UNCHANGED <<retrieval_vars, bm25_vars>>

\* vectordb = Chroma.from_documents(...); vectordb.persist()
BuildCell(fail_at) ==
    /\ pc = "build"
    /\ LET built == FromDocuments(vectordb, langchain_docs, fail_at)
       IN  /\ vectordb' = built.store
           /\ persisted' = IF built.ok THEN persisted + 1 ELSE persisted
           /\ error' = IF built.ok THEN None ELSE "EmbeddingProviderError"
           /\ pc' = IF built.ok THEN "built" ELSE "build_failed"
    /\ entries_before_build' = Len(vectordb)
    /\ builds' = builds + 1
    /\ UNCHANGED <<input_file, jsonl_documents, langchain_docs, rag_documents,
                   query_state>>
    /\ UNCHANGED <<retrieval_vars, bm25_vars>>

\* The retrieval notebook's cell 5: load_chroma_db, vectordb.get(), documents.
ReadBackCell ==
    /\ pc \in {"built", "build_failed"}
    /\ rag_documents' = ReadBack(vectordb)
    /\ pc' = "rag"
    /\ UNCHANGED <<input_file, jsonl_documents, langchain_docs, vectordb,
                   entries_before_build, builds, persisted, query_state, error>>
    /\ UNCHANGED <<retrieval_vars, bm25_vars>>

NextBuild ==
    \/ LoadJsonlCell
    \/ ConvertCell
    \/ \E fail_at \in 0..NumBatches(Len(langchain_docs)) : BuildCell(fail_at)
    \/ ReadBackCell

SpecBuild == InitBuild /\ [][NextBuild]_vars

\* ------------------------------------------------- the BM25 retriever by itself

\* The highest score a text gets for a query.
MaxScore == 2

\* The lists create_bm25_retriever is given: the first n entries of the store.
Corpora == {SubSeq(documents, 1, n) : n \in 0..Len(documents)}

\* BM25Okapi.get_scores(query): a score per text; a text none of whose terms
\* is in the query scores 0.
ScoreVectors == [PageContents -> 0..MaxScore]

Orders(n) == {p \in [1..n -> 1..n] : \A i, j \in 1..n : i # j => p[i] # p[j]}

\* np.argsort(scores): the positions in ascending order of score; the order of
\* positions with equal scores is not defined (the default sort is not stable).
Argsorts(docs, sc) ==
    {p \in Orders(Len(docs)) :
        \A i \in 1..(Len(docs) - 1) :
            sc[page_content(docs[p[i]])] <= sc[page_content(docs[p[i + 1]])]}

\* Mutant of GetTopN: the argsort is not reversed.
GetTopNAscending(docs, order, n) ==
    [i \in 1..(IF n <= Len(docs) THEN n ELSE Len(docs)) |-> docs[order[i]]]

\* BM25Okapi.get_top_n: top_n = np.argsort(scores)[::-1][:n];
\* return [documents[i] for i in top_n]
GetTopN(docs, order, n) ==
    [i \in 1..(IF n <= Len(docs) THEN n ELSE Len(docs)) |->
        docs[order[Len(docs) + 1 - i]]]

\* The documents have been read back; no BM25 retriever yet.
InitBM25 ==
    /\ bm25_docs = <<>>
    /\ scores = [key \in PageContents |-> 0]
    /\ bm25_results = <<>>
    /\ similarity_retriever = Returned(<<>>)
    /\ bm25_retriever = Returned(<<>>)
    /\ llm = Returned("answer")
    /\ retrievers = <<>>
    /\ weights = <<>>
    /\ rrf_score = [key \in PageContents |-> Zero]
    /\ ensemble_results = <<>>
    /\ response = Raised(None)
    /\ llm_called = FALSE
    /\ error = None
    /\ pc = "documents"
    /\ query_state = <<>>
    /\ BuildIdle

\* create_bm25_retriever(documents, k): BM25Retriever.from_documents; an empty
\* corpus divides by its size.
CreateBM25Retriever(docs) ==
    /\ pc = "documents"
    /\ IF docs = <<>>
       THEN /\ error' = "ZeroDivisionError"
            /\ pc' = "failed"
            /\ UNCHANGED bm25_docs
       ELSE /\ bm25_docs' = docs
            /\ pc' = "bm25"
            /\ UNCHANGED error
    /\ UNCHANGED <<scores, bm25_results, query_state>>
    /\ UNCHANGED <<retrieval_vars, build_vars>>

\* bm25_retriever.get_relevant_documents(query)
BM25Query(sc, order) ==
    /\ pc \in {"bm25", "queried"}
    /\ order \in Argsorts(bm25_docs, sc)
    /\ scores' = sc
    /\ bm25_results' = GetTopN(bm25_docs, order, k)
    /\ pc' = "queried"
    /\ UNCHANGED <<bm25_docs, query_state, error>>
    /\ UNCHANGED <<retrieval_vars, build_vars>>

NextBM25 ==
    \/ \E docs \in Corpora : CreateBM25Retriever(docs)
    \/ \E sc \in ScoreVectors : \E order \in Orders(Len(bm25_docs)) :
           BM25Query(sc, order)

SpecBM25 == InitBM25 /\ [][NextBM25]_vars

\* ---------------------------------------------------------------- claims

\* The test cell ran the ensemble: its lists were fused into ensemble_results.
Fused == pc = "tested" /\ error = None

\* The ranks at which doc_list holds an entry with this page_content.
RanksOf(doc_list, key) == {r \in 1..Len(doc_list) : page_content(doc_list[r]) = key}

\* No two entries of the list hold the same page_content.
Distinct(doc_list) == \A key \in PageContents : Cardinality(RanksOf(doc_list, key)) <= 1

\* The page_contents the fused lists hold.
KeysOf(doc_lists) ==
    {key \in PageContents : \E i \in 1..Len(doc_lists) : RanksOf(doc_lists[i], key) # {}}

\* weight * 1/(r + C) for the list's rank r of the document, 0 when the list lacks it
Term(weight, doc_list, key) ==
    IF RanksOf(doc_list, key) = {} THEN Zero
    ELSE <<weight[1], weight[2] * (Min(RanksOf(doc_list, key)) + c)>>

RECURSIVE SumOfTerms(_, _, _, _)
SumOfTerms(ws, doc_lists, key, i) ==
    IF i = 0 THEN Zero
    ELSE RatAdd(SumOfTerms(ws, doc_lists, key, i - 1), Term(ws[i], doc_lists[i], key))

C2_AtMostK ==
    Fused /\ Len(retrievers) = 2 =>
        /\ Len(ensemble_results) <= k
        /\ Len(ensemble_results) <= Cardinality(KeysOf(DocLists(retrievers)))

\* C2, amended: the fused list has at most one entry per distinct document of
\* the input lists, hence at most k per retriever of the ensemble (2k for two).
C2_AtMostDistinct ==
    Fused =>
        /\ Len(ensemble_results) <= Cardinality(KeysOf(DocLists(retrievers)))
        /\ Len(ensemble_results) <= Len(retrievers) * k

\* Two retrievers returned k documents each and the ensemble returned more than k.
C2_Witness ==
    /\ Fused
    /\ retrievers = <<"similarity", "bm25">>
    /\ Len(similarity_retriever.docs) = k /\ Len(bm25_retriever.docs) = k
    /\ Len(ensemble_results) > k

\* C3: in the fused output no page_content occurs twice, and every document
\* of an input list (also one that both lists hold) occurs exactly once.
C3_FusionDeduplicates ==
    Fused =>
        /\ \A i, j \in 1..Len(ensemble_results) :
               i # j => page_content(ensemble_results[i]) # page_content(ensemble_results[j])
        /\ \A key \in KeysOf(DocLists(retrievers)) :
               Cardinality(RanksOf(ensemble_results, key)) = 1

\* Both lists hold the same document (one of them through a second store entry
\* with the same text), and the fused output holds it.
C3_Witness ==
    /\ Fused
    /\ retrievers = <<"similarity", "bm25">>
    /\ \E key \in PageContents :
           /\ RanksOf(similarity_retriever.docs, key) # {}
           /\ RanksOf(bm25_retriever.docs, key) # {}
           /\ RanksOf(ensemble_results, key) # {}
    /\ \E r \in 1..Len(bm25_retriever.docs) :
           /\ bm25_retriever.docs[r] \notin Range(similarity_retriever.docs)
           /\ RanksOf(similarity_retriever.docs, page_content(bm25_retriever.docs[r])) # {}

\* The best (smallest) rank any list gives the document.
BestRank(doc_lists, key) ==
    Min(UNION {RanksOf(doc_lists[i], key) : i \in 1..Len(doc_lists)})

\* The position of the first store entry with this page_content.
CorpusIndex(key) == Min(RanksOf(documents, key))

\* Where the document first occurs when the lists are laid end to end.
ChainIndex(doc_lists, key) == Min(RanksOf(Chain(doc_lists, 1), key))

ScoreOf(d) == rrf_score[page_content(d)]

\* C4 as stated: the output is in descending score order, and of two documents
\* with equal score the one with the smaller best rank comes first, then the
\* one inserted earlier in the corpus.
C4_TiesByBestRankThenCorpus ==
    Fused =>
        LET doc_lists == DocLists(retrievers)
        IN  \A i, j \in 1..Len(ensemble_results) :
                i < j =>
                    LET a == ensemble_results[i]
                        b == ensemble_results[j]
                        ra == BestRank(doc_lists, page_content(a))
                        rb == BestRank(doc_lists, page_content(b))
                    IN  \/ RatLess(ScoreOf(b), ScoreOf(a))
                        \/ /\ RatEq(ScoreOf(a), ScoreOf(b))
                           /\ \/ ra < rb
                              \/ /\ ra = rb
                                 /\ CorpusIndex(page_content(a)) < CorpusIndex(page_content(b))

\* C4, amended: the output is in descending score order, and documents with
\* equal score keep the order of their first occurrence in the input lists
\* laid end to end in the order of the retrievers.
C4_TiesByFirstOccurrence ==
    Fused =>
        LET doc_lists == DocLists(retrievers)
        IN  \A i, j \in 1..Len(ensemble_results) :
                i < j =>
                    LET a == ensemble_results[i]
                        b == ensemble_results[j]
                    IN  \/ RatLess(ScoreOf(b), ScoreOf(a))
                        \/ /\ RatEq(ScoreOf(a), ScoreOf(b))
                           /\ ChainIndex(doc_lists, page_content(a))
                                < ChainIndex(doc_lists, page_content(b))

\* Equal weights tie the two rank-1 documents; the similarity retriever's comes
\* first although the BM25 one was inserted earlier in the corpus.
C4_Witness ==
    /\ Fused
    /\ retrievers = <<"similarity", "bm25">>
    /\ weights = << <<1, 2>>, <<1, 2>> >>
    /\ Len(similarity_retriever.docs) >= 1 /\ Len(bm25_retriever.docs) >= 1
    /\ Len(ensemble_results) >= 2
    /\ ensemble_results[1] = similarity_retriever.docs[1]
    /\ ensemble_results[2] = bm25_retriever.docs[1]
    /\ RatEq(ScoreOf(ensemble_results[1]), ScoreOf(ensemble_results[2]))
    /\ CorpusIndex(page_content(ensemble_results[2]))
         < CorpusIndex(page_content(ensemble_results[1]))

\* C5: create_ensemble_retriever called with weights unset gives every one of
\* the n >= 1 retrievers the weight 1/n, (0.5, 0.5) for two; weights the
\* caller passes become the ensemble's weights unchanged.
C5_DefaultWeightsAreEqual ==
    [][\A rs \in RetrieverLists : \A ws \in WeightArgs(Len(rs)) :
         (CreateEnsembleRetriever(rs, ws) /\ Len(rs) >= 1) =>
            /\ retrievers' = rs
            /\ Len(weights') = Len(rs)
            /\ ws.is_none =>
                 /\ \A i \in 1..Len(rs) : RatEq(weights'[i], <<1, Len(rs)>>)
                 /\ Len(rs) = 2 => \A i \in 1..2 : RatEq(weights'[i], <<5, 10>>)
            /\ ~ws.is_none => weights' = ws.value]_vars

\* An ensemble of two retrievers was created with the weights unset.
C5_Witness ==
    /\ pc = "ensemble"
    /\ Len(retrievers) = 2
    /\ weights = << <<1, 2>>, <<1, 2>> >>

\* rag_chain.invoke has ended, and the ensemble holds both retrievers.
Answered == pc = "answered" /\ Range(retrievers) = {"similarity", "bm25"}

\* C6 as stated: when the semantic query raises and the lexical one succeeds,
\* rag_chain.invoke still returns an answer, built from the lexical results.
C6_DegradesToLexicalOnly ==
    (Answered /\ ~similarity_retriever.ok /\ bm25_retriever.ok /\ llm.ok) =>
        /\ response.ok
        /\ Range(response.context) \subseteq Range(bm25_retriever.docs)

\* C6, amended: when the semantic query raises and the lexical one succeeds,
\* rag_chain.invoke raises the semantic query's exception to the caller: no
\* answer is returned and the language model is not called.
C6_SemanticFailurePropagates ==
    (Answered /\ ~similarity_retriever.ok /\ bm25_retriever.ok) =>
        /\ ~response.ok
        /\ response.exc = similarity_retriever.exc
        /\ error = similarity_retriever.exc
        /\ ~llm_called

\* The chain was invoked with a failing semantic query, a working lexical
\* query and a working language model.
C6_Witness ==
    /\ Answered
    /\ retrievers = <<"similarity", "bm25">>
    /\ ~similarity_retriever.ok
    /\ bm25_retriever.ok /\ Len(bm25_retriever.docs) = k
    /\ llm.ok

\* The exception of the first retriever of the ensemble that raises.
FirstFailure == Invoke(retrievers[Min(Failing(retrievers))]).exc

\* C7 as stated: when both index queries fail the chain ends in RetrievalError
\* without calling the language model, when the language model fails it ends
\* in GenerationError, and a response is returned only when nothing failed.
C7_WrappedErrors ==
    Answered =>
        /\ (~similarity_retriever.ok /\ ~bm25_retriever.ok) =>
              ~response.ok /\ response.exc = "RetrievalError" /\ ~llm_called
        /\ (similarity_retriever.ok /\ bm25_retriever.ok /\ ~llm.ok) =>
              ~response.ok /\ response.exc = "GenerationError"
        /\ response.ok =>
              similarity_retriever.ok /\ bm25_retriever.ok /\ llm.ok

\* C7, amended: when both index queries fail the chain raises the exception of
\* the first retriever, unwrapped, without calling the language model; when the
\* language model fails it raises the model's exception, unwrapped; a response
\* is returned only when nothing failed, with the model's answer.
C7_ErrorsPropagateUnwrapped ==
    Answered =>
        /\ (~similarity_retriever.ok /\ ~bm25_retriever.ok) =>
              ~response.ok /\ response.exc = FirstFailure /\ ~llm_called
        /\ (similarity_retriever.ok /\ bm25_retriever.ok /\ ~llm.ok) =>
              ~response.ok /\ response.exc = llm.exc /\ llm_called
        /\ response.ok =>
              /\ similarity_retriever.ok /\ bm25_retriever.ok /\ llm.ok
              /\ response.answer = llm.docs
              /\ response.context = WeightedReciprocalRank(DocLists(retrievers), weights)

\* The chain was invoked with both index queries failing.
C7_Witness ==
    /\ Answered
    /\ ~similarity_retriever.ok /\ ~bm25_retriever.ok
    /\ ~response.ok

\* The position of a retriever in the ensemble.
IndexOf(r) == Min({i \in 1..Len(retrievers) : retrievers[i] = r})

\* The test cell queried an ensemble of the two retrievers, both answering.
Tested ==
    /\ pc = "tested"
    /\ Len(retrievers) = 2 /\ Range(retrievers) = {"similarity", "bm25"}
    /\ similarity_retriever.ok /\ bm25_retriever.ok

OnlyIn(doc_list, other) ==
    {key \in PageContents : RanksOf(doc_list, key) # {} /\ RanksOf(other, key) = {}}

Before(result, a, b) == Min(RanksOf(result, a)) < Min(RanksOf(result, b))

\* The fusion of the same lists with the BM25 weight replaced by w.
WithLexicalWeight(w) ==
    WeightedReciprocalRank(DocLists(retrievers), [weights EXCEPT ![IndexOf("bm25")] = w])

\* C10: with the lists and the semantic weight fixed, a larger lexical weight
\* leaves every document that only the lexical list holds ahead of every
\* document that only the semantic list holds which it was ahead of before.
C10_WeightMonotonicity ==
    (Tested /\ error = None) =>
        \A w \in WeightValues :
            RatLess(weights[IndexOf("bm25")], w) =>
                \A l \in OnlyIn(bm25_retriever.docs, similarity_retriever.docs) :
                    \A s \in OnlyIn(similarity_retriever.docs, bm25_retriever.docs) :
                        Before(ensemble_results, l, s) => Before(WithLexicalWeight(w), l, s)

\* A lexical-only document is ahead of a semantic-only one under positive
\* weights, and a larger lexical weight exists; another lexical-only document
\* is behind a semantic-only one and the larger weight moves it ahead.
C10_Witness ==
    /\ Tested /\ error = None
    /\ RatLess(Zero, weights[IndexOf("similarity")])
    /\ \E w \in WeightValues :
           /\ RatLess(weights[IndexOf("bm25")], w)
           /\ \E l1, l2 \in OnlyIn(bm25_retriever.docs, similarity_retriever.docs) :
                  \E s \in OnlyIn(similarity_retriever.docs, bm25_retriever.docs) :
                      /\ Before(ensemble_results, l1, s)
                      /\ ~Before(ensemble_results, l2, s)
                      /\ Before(WithLexicalWeight(w), l2, s)

\* ------------------------------------------------------------------ C11

Settled(i) == query_state[i] \in {"returned", "raised"}

\* C11 as stated: the two index queries of a request are issued concurrently,
\* neither waiting for the other's result (so once one of them has finished the
\* other has been issued too), and the fusion starts only after both completed.
C11_IssuedConcurrently ==
    /\ \A i, j \in 1..Len(retrievers) : Settled(i) => query_state[j] # "idle"
    /\ pc = "fused" => \A i \in 1..Len(retrievers) : query_state[i] = "returned"

\* C11, amended: the index queries of a request are issued one after the other
\* in the order of the ensemble's retrievers, each only after the one before it
\* has returned, so at most one is outstanding; the fusion starts only after
\* all have returned, and nothing is fused while a query is outstanding or
\* after one has raised.
C11_IssuedInTurn ==
    /\ Cardinality({i \in 1..Len(retrievers) : query_state[i] = "outstanding"}) <= 1
    /\ \A i, j \in 1..Len(retrievers) :
           i < j /\ query_state[j] # "idle" => query_state[i] = "returned"
    /\ pc = "fused" =>
           /\ \A i \in 1..Len(retrievers) : query_state[i] = "returned"
           /\ ensemble_results = RankFusion(retrievers, weights).docs
    /\ pc # "fused" => ensemble_results = <<>>

\* The semantic query has returned, the lexical one is outstanding.
C11_Witness ==
    /\ pc = "request"
    /\ query_state = <<"returned", "outstanding">>
    /\ Len(similarity_retriever.docs) = k

\* ------------------------------------------------------------------ C12

\* The documents of the entries the last build added to the store.
AddedByBuild ==
    [i \in 1..(Len(vectordb) - entries_before_build) |->
        Document(vectordb[entries_before_build + i].document,
                 vectordb[entries_before_build + i].metadata)]

\* C12 as stated: if an embedding call fails during the build, the vector store
\* holds none of the documents of that build, and nothing of it is read back as
\* the lexical corpus.
C12_AllOrNothing ==
    /\ pc = "build_failed" => AddedByBuild = <<>>
    /\ pc = "rag" /\ error = "EmbeddingProviderError" =>
           Len(rag_documents) = entries_before_build

\* C12, amended: the build is all-or-nothing per batch of max_batch_size
\* documents. When the embedding call of a batch fails, the store holds none of
\* the documents of that batch or of a later one, but keeps every batch written
\* before it (and what earlier builds left), and exactly these entries are read
\* back as the lexical corpus; a build that fits into one batch leaves nothing.
C12_AllOrNothingPerBatch ==
    /\ pc = "build_failed" =>
           /\ \E b \in 1..NumBatches(Len(langchain_docs)) :
                  AddedByBuild = SubSeq(langchain_docs, 1, (b - 1) * max_batch_size)
           /\ Len(AddedByBuild) < Len(langchain_docs)
           /\ Len(langchain_docs) <= max_batch_size => AddedByBuild = <<>>
    /\ pc = "rag" /\ error = "EmbeddingProviderError" =>
           /\ Len(rag_documents) = Len(vectordb)
           /\ SubSeq(rag_documents, entries_before_build + 1, Len(rag_documents))
                  = AddedByBuild

\* A build of two batches failed in its second batch; the first batch stayed in
\* the store and was read back.
C12_Witness ==
    /\ pc = "rag"
    /\ error = "EmbeddingProviderError"
    /\ builds = 1
    /\ Len(langchain_docs) = max_batch_size + 1
    /\ Len(vectordb) = max_batch_size
    /\ rag_documents = SubSeq(langchain_docs, 1, max_batch_size)

\* ------------------------------------------------------------------ C13

ScoreIn(d) == scores[page_content(d)]

\* Where document d stands in the BM25 corpus.
CorpusPosition(d) == Min({i \in 1..Len(bm25_docs) : bm25_docs[i] = d})

Descending(result) ==
    \A i \in 1..(Len(result) - 1) : ScoreIn(result[i]) >= ScoreIn(result[i + 1])

\* C13 as stated: a BM25 query returns at most k documents in descending score
\* order with ties in corpus order, all documents when k exceeds the corpus
\* size, and the empty list when no query term occurs in any document.
C13_TopKTiesInCorpusOrderEmptyOnNoMatch ==
    pc = "queried" =>
        /\ Len(bm25_results) <= k
        /\ Descending(bm25_results)
        /\ \A i \in 1..(Len(bm25_results) - 1) :
               ScoreIn(bm25_results[i]) = ScoreIn(bm25_results[i + 1]) =>
                   CorpusPosition(bm25_results[i]) < CorpusPosition(bm25_results[i + 1])
        /\ k > Len(bm25_docs) => Range(bm25_results) = Range(bm25_docs)
        /\ (\A d \in Range(bm25_docs) : ScoreIn(d) = 0) => bm25_results = <<>>

\* C13, amended: a BM25 query returns exactly min(k, corpus size) different
\* documents of the corpus in descending score order, none of them scoring
\* less than a document left out; it returns all documents when k exceeds the
\* corpus size; and when no query term occurs in any document it still
\* returns min(k, corpus size) documents, all of score 0.
C13_TopKOfArgsort ==
    pc = "queried" =>
        /\ Len(bm25_results) = (IF k <= Len(bm25_docs) THEN k ELSE Len(bm25_docs))
        /\ Cardinality(Range(bm25_results)) = Len(bm25_results)
        /\ Range(bm25_results) \subseteq Range(bm25_docs)
        /\ Descending(bm25_results)
        /\ \A d \in Range(bm25_results) : \A e \in Range(bm25_docs) \ Range(bm25_results) :
               ScoreIn(d) >= ScoreIn(e)
        /\ k > Len(bm25_docs) => Range(bm25_results) = Range(bm25_docs)

\* No query term occurs in any document of a corpus of more than k documents,
\* and k documents are returned.
C13_Witness ==
    /\ pc = "queried"
    /\ Len(bm25_docs) > k
    /\ \A d \in Range(bm25_docs) : ScoreIn(d) = 0
    /\ Len(bm25_results) = k

\* ------------------------------------------------------------------ C14

\* The ensemble of the notebook's two retrievers, fused.
FusedBoth == Fused /\ Range(retrievers) = {"similarity", "bm25"} /\ Len(retrievers) = 2

NonBlank(file) == {i \in 1..Len(file) : Strip(file[i]) # ""}

\* How often the sequence holds the value.
Count(seq, x) == Cardinality({i \in 1..Len(seq) : seq[i] = x})

\* The Document a JSON line stands for.
DocumentOf(line) == Document(JsonLoads(line).content, JsonLoads(line).metadata)

\* Every build so far ran to its end.
AllBuildsPersisted == persisted = builds

\* C16 as stated: after more than one build over the same file and directory
\* the store holds every document once, so the corpus read back has as many
\* documents as the file has non-blank lines, and no duplicates.
C16_RebuildKeepsOneCopy ==
    pc = "rag" /\ builds > 1 /\ AllBuildsPersisted =>
        /\ Len(rag_documents) = Cardinality(NonBlank(input_file))
        /\ \A i, j \in 1..Len(rag_documents) : i # j => rag_documents[i] # rag_documents[j]

\* C16, amended: every build appends all documents of the file once more,
\* under fresh ids: after n complete builds the corpus read back holds n
\* documents for every non-blank line of the file, n times the number of
\* non-blank lines in all, and no two entries of the store share an id.
C16_EveryBuildAppends ==
    /\ \A i, j \in 1..Len(vectordb) : i # j => vectordb[i].id # vectordb[j].id
    /\ pc = "rag" /\ AllBuildsPersisted =>
           /\ Len(rag_documents) = builds * Cardinality(NonBlank(input_file))
           /\ \A line \in Lines :
                  Strip(line) # "" =>
                      Count(rag_documents, DocumentOf(line)) = builds * Count(input_file, line)

\* Two complete builds over a file of two different documents: the corpus read
\* back holds four documents, each of the two twice.
C16_Witness ==
    /\ pc = "rag"
    /\ builds = 2
    /\ AllBuildsPersisted
    /\ Cardinality(NonBlank(input_file)) = 2
    /\ Count(input_file, "json:index") = 1
    /\ Len(rag_documents) = 4
    /\ Count(rag_documents, DocumentOf("json:index")) = 2

\* ------------------------------------------------------------------ C17

\* The j-th non-blank line of the file.
NthNonBlank(file, j) ==
    CHOOSE i \in NonBlank(file) : Cardinality({h \in NonBlank(file) : h <= i}) = j

\* The conversion cell has run over the file.
Converted == pc \in {"build", "built", "build_failed", "rag"} \/ (pc = "convert" /\ builds > 0)

\* C17: the corpus the BM25 retriever is built from is exactly the store, one
\* Document per entry, each text with its own metadata, in the store's order;
\* and load_jsonl with convert_to_langchain_documents yields one Document per
\* non-blank line of the file, in the order of the lines.
C17_LexicalCorpusIsTheStore ==
    /\ pc = "rag" =>
           /\ Len(rag_documents) = Len(vectordb)
           /\ \A i \in 1..Len(vectordb) :
                  /\ rag_documents[i].page_content = vectordb[i].document
                  /\ rag_documents[i].metadata = vectordb[i].metadata
    /\ Converted =>
           /\ Len(langchain_docs) = Cardinality(NonBlank(input_file))
           /\ \A j \in 1..Len(langchain_docs) :
                  langchain_docs[j] = DocumentOf(input_file[NthNonBlank(input_file, j)])

\* A file with a blank line between two different documents was built once and
\* read back: two documents, in the order of the file, each with its metadata.
C17_Witness ==
    /\ pc = "rag"
    /\ builds = 1
    /\ AllBuildsPersisted
    /\ input_file = <<"json:installing", " ", "json:index">>
    /\ rag_documents = <<Document("installing roo code", "installing.md"),
                         Document("roo code is an agent", "index.md")>>

====
